---- MODULE Spec2Model ----
(***************************************************************************)
(* Two-phase, directory-first parallel crawler (two_phase_dir_first.py).   *)
(*                                                                         *)
(* Phase 1: a pool of dir_worker threads walks the directory tree through  *)
(* the bounded queue dir_q and appends every directory's relative path to  *)
(* the ledger file (dirs_file).  Phase 2: main streams the ledger back     *)
(* into the bounded queue dir_in_q; a pool of file_worker threads lists    *)
(* each directory and writes every regular file into one shard.            *)
(*                                                                         *)
(* Paths are sequences of name components.  A file on disk is kept as the  *)
(* sequence of its NUL-terminated records.  A buffered writer is a record  *)
(* [buf, disk, closed]: buf is what write() has accepted and not yet       *)
(* flushed, disk is what a reader of the file sees.                        *)
(***************************************************************************)
EXTENDS Integers, Sequences, FiniteSets, Bags, TLC

\* ------------------------------------------------------------------------
\* Bounds of the model
\* ------------------------------------------------------------------------
MaxWorkers == 2
MaxQ == 2
MaxShards == 2
MaxFaults == 1
MaxChunk == 4
MaxRecs == 3

\* ------------------------------------------------------------------------
\* Program constants
\* ------------------------------------------------------------------------
\* (dirs_emitted & 0xFFFF) == 0
DirFlushEvery == 65536
\* (files_emitted & 0xFFFFF) == 0
FileFlushEvery == 1048576

\* ------------------------------------------------------------------------
\* The filesystem collaborator: trees, given as real directory (below the
\* root) -> its entries in listing order.  kind is one of "dir", "file",
\* "lnkdir" (symlink to the directory `target`), "lnkfile".
\* ------------------------------------------------------------------------
T1 ==
    (<<>> :> <<[name |-> "a", kind |-> "dir", target |-> <<>>], [name |-> "b", kind |-> "dir", target |-> <<>>], [name |-> "f", kind |-> "file", target |-> <<>>], [name |-> "s", kind |-> "lnkdir", target |-> <<"a">>], [name |-> "l", kind |-> "lnkfile", target |-> <<>>]>>)
    @@ (<<"a">> :> <<[name |-> "x", kind |-> "file", target |-> <<>>]>>)
    @@ (<<"b">> :> <<[name |-> "c", kind |-> "dir", target |-> <<>>], [name |-> "y", kind |-> "file", target |-> <<>>]>>)
    @@ (<<"b", "c">> :> <<>>)

T2 ==
    (<<>> :> <<[name |-> "b", kind |-> "dir", target |-> <<>>], [name |-> "e", kind |-> "dir", target |-> <<>>]>>)
    @@ (<<"b">> :> <<[name |-> "p", kind |-> "file", target |-> <<>>], [name |-> "t", kind |-> "file", target |-> <<>>]>>)
    @@ (<<"e">> :> <<[name |-> "b", kind |-> "dir", target |-> <<>>], [name |-> "r", kind |-> "file", target |-> <<>>]>>)
    @@ (<<"e", "b">> :> <<[name |-> "z", kind |-> "file", target |-> <<>>]>>)

T3 ==
    (<<>> :> <<[name |-> "b", kind |-> "dir", target |-> <<>>], [name |-> "f", kind |-> "file", target |-> <<>>]>>)
    @@ (<<"b">> :> <<[name |-> "g", kind |-> "dir", target |-> <<>>], [name |-> "h", kind |-> "dir", target |-> <<>>]>>)
    @@ (<<"b", "g">> :> <<>>)
    @@ (<<"b", "h">> :> <<>>)

TreeNames == {"T1", "T2", "T3"}

Tree(t) == IF t = "T1" THEN T1 ELSE IF t = "T2" THEN T2 ELSE T3

\* The values --exclude is drawn from.
ExcludeSets == SUBSET {"b"}

Modes == {"roundrobin", "hash", "bydir"}

\* hashlib.blake2b(path.encode(), digest_size=4).digest() of every path of
\* the trees above, joined with os.sep = "/": the four digest bytes.
blake2b ==
    (<<".">> :> <<216, 167, 18, 138>>)
    @@ (<<"a">> :> <<202, 35, 76, 85>>)
    @@ (<<"a", "x">> :> <<40, 63, 255, 254>>)
    @@ (<<"b">> :> <<253, 157, 63, 81>>)
    @@ (<<"b", "c">> :> <<4, 230, 152, 186>>)
    @@ (<<"b", "g">> :> <<92, 134, 9, 224>>)
    @@ (<<"b", "h">> :> <<17, 122, 149, 214>>)
    @@ (<<"b", "p">> :> <<247, 119, 60, 33>>)
    @@ (<<"b", "t">> :> <<132, 124, 220, 165>>)
    @@ (<<"b", "y">> :> <<199, 196, 35, 223>>)
    @@ (<<"e">> :> <<157, 40, 96, 155>>)
    @@ (<<"e", "b">> :> <<251, 227, 10, 201>>)
    @@ (<<"e", "b", "z">> :> <<63, 144, 200, 164>>)
    @@ (<<"e", "r">> :> <<229, 229, 36, 83>>)
    @@ (<<"f">> :> <<29, 97, 1, 221>>)
    @@ (<<"l">> :> <<127, 41, 217, 70>>)
    @@ (<<"s">> :> <<162, 117, 146, 238>>)
    @@ (<<"s", "x">> :> <<38, 55, 237, 23>>)

\* ------------------------------------------------------------------------
\* Helpers
\* ------------------------------------------------------------------------
Range(s) == {s[i] : i \in 1..Len(s)}

Front(s) == SubSeq(s, 1, Len(s) - 1)

Last(s) == s[Len(s)]

\* root = os.path.abspath(args.root)
Root == <<"/R">>

\* The queue sentinel, stop = object(): equal to no path.
Stop == <<"<stop>">>

\* A path below the root, as the components after the root prefix.
Below(p) == SubSeq(p, Len(Root) + 1, Len(p))

\* The entry called `nm` of the real directory `dir`.
Lookup(fs, dir, nm) == CHOOSE e \in Range(fs[dir]) : e.name = nm

\* The real directory a path below the root names, symlinks resolved
\* component by component.
RECURSIVE Resolve(_, _, _)
Resolve(fs, cur, rest) ==
    IF rest = <<>> THEN cur
    ELSE LET e == Lookup(fs, cur, Head(rest))
         IN  Resolve(fs,
                     IF e.kind = "lnkdir" THEN e.target ELSE Append(cur, Head(rest)),
                     Tail(rest))

\* os.scandir(d): the DirEntry objects of d in listing order, each with its
\* name and its path os.path.join(d, name).
scandir(fs, d) ==
    LET raw == fs[Resolve(fs, <<>>, Below(d))]
    IN  [k \in 1..Len(raw) |->
            [name |-> raw[k].name, kind |-> raw[k].kind,
             target |-> raw[k].target, path |-> Append(d, raw[k].name)]]

\* de.is_dir(follow_symlinks=follow)
is_dir(de, follow) == de.kind = "dir" \/ (follow /\ de.kind = "lnkdir")

\* de.is_file(follow_symlinks=False)
is_file(de) == de.kind = "file"

\* relpath(root, p)
relpath(root, p) ==
    LET r == SubSeq(p, Len(root) + 1, Len(p))
    IN  IF r = <<>> THEN <<".">> ELSE r

\* max(1, args.workersN)
NumThreads(n) == IF n < 1 THEN 1 ELSE n

\* A queue that never reports full.
QFull_Never(q, maxsize) == FALSE

\* queue.Queue(maxsize): full() is 0 < maxsize <= qsize()
QFull(q, maxsize) == maxsize > 0 /\ Len(q) >= maxsize

\* A buffered binary writer opened in append mode on a file whose content
\* is `content`.
OpenAppend(content) == [buf |-> <<>>, disk |-> content, closed |-> FALSE]

\* f.write(record): the record goes to the buffer.  (The 1 MiB buffer is
\* never filled by the records of this model's trees.)
WriteRec(f, rec) == [f EXCEPT !.buf = Append(@, rec)]

\* f.flush()
Flush(f) == [f EXCEPT !.disk = @ \o f.buf, !.buf = <<>>]

\* f.flush(); f.close()
FlushClose(f) == [Flush(f) EXCEPT !.closed = TRUE]

\* ------------------------------------------------------------------------
\* State
\* ------------------------------------------------------------------------
VARIABLES
    tree,                 \* the tree under args.root
    run,                  \* which invocation of main this is
    prev,                 \* history: the shard -> set of files of the run before
    rd,                   \* the ledger stream reader: chunk size, offset, buf, start
    locks,                \* the phase-2 locks that are held, and the flush loop's i
    failed1,              \* history: directories whose phase-1 listing raised
    tickets,              \* history: the rr_counter values choose_out handed out
    args,                 \* the parsed command line
    pc,                   \* main's position
    dir_q,                \* phase-1 queue: its items
    dir_q_unfinished,     \* phase-1 queue: unfinished_tasks
    dirs_file,            \* the ledger writer and its file
    dirs_emitted,
    w1,                   \* the dir_worker threads
    sent,                 \* sentinels put so far by the current stop loop
    outs,                 \* the shard (or manifest) writers and their files
    rr_counter,
    files_emitted,
    dir_in_q,             \* phase-2 queue: its items
    dir_in_q_unfinished,  \* phase-2 queue: unfinished_tasks
    read_pos,             \* ledger records consumed by the stream reader
    w2,                   \* the file_worker threads
    faults,               \* I/O errors raised so far
    dropped,              \* history: directories a phase-1 handler skipped
    sink_err,             \* history: a write to an output sink raised
    failed2,              \* history: <<dir_rel, where>> of each phase-2 listing error
    fs_err2,              \* history: a phase-2 handler absorbed a listing error
    scanned2,             \* history: bag of dir_rels listed in phase 2
    pushed                \* history: dir_rels put on dir_in_q, in order

vars == <<tree, run, prev, rd, locks, failed1, tickets, args, pc, dir_q, dir_q_unfinished, dirs_file, dirs_emitted, w1,
          sent, outs, rr_counter, files_emitted, dir_in_q, dir_in_q_unfinished,
          read_pos, w2, faults, dropped, sink_err, failed2, fs_err2, scanned2,
          pushed>>

phase1_vars == <<dir_q, dir_q_unfinished, dirs_file, dirs_emitted, w1>>

phase2_vars == <<outs, rr_counter, files_emitted, dir_in_q, dir_in_q_unfinished,
                 read_pos, w2, scanned2, pushed, failed2, fs_err2>>

Workers1 == 1..NumThreads(args.workers1)

Workers2 == 1..NumThreads(args.workers2)

IdleWorker == [pc |-> "new", d |-> <<>>, it |-> <<>>, child |-> <<>>]

IdleFileWorker == [pc |-> "new", dir_rel |-> <<>>, it |-> <<>>, rel_file |-> <<>>, idx |-> 0]

\* The stream reader before the ledger is opened for reading.
NoReader == [chunk |-> 0, pos |-> 0, buf |-> <<>>, start |-> 0, inner |-> FALSE]

\* No lock is held.  A held lock is a pair <<lock, holder>>; i is the index
\* of the flush loop, which runs under files_lock.
NoLocks == [held |-> {}, i |-> 0]

Args == [exclude : ExcludeSets, follow_symlinks : BOOLEAN, maxq : 0..MaxQ,
         workers1 : 1..MaxWorkers, workers2 : 1..MaxWorkers,
         mode : Modes, shards : 0..MaxShards]

\* main up to the open of the ledger: the arguments are parsed,
\* the queue is empty and the ledger file is new.
Init ==
    /\ tree \in TreeNames
    /\ run = 1
    /\ prev = <<>>
    /\ rd = NoReader
    /\ locks = NoLocks
    /\ failed1 = {}
    /\ tickets = <<>>
    /\ args \in Args
    /\ pc = "seed"
    /\ dir_q = <<>>
    /\ dir_q_unfinished = 0
    /\ dirs_file = OpenAppend(<<>>)
    /\ dirs_emitted = 0
    /\ w1 = [i \in Workers1 |-> IdleWorker]
    /\ sent = 0
    /\ outs = <<>>
    /\ rr_counter = 0
    /\ files_emitted = 0
    /\ dir_in_q = <<>>
    /\ dir_in_q_unfinished = 0
    /\ read_pos = 0
    /\ w2 = [i \in Workers2 |-> IdleFileWorker]
    /\ faults = 0
    /\ dropped = {}
    /\ sink_err = FALSE
    /\ failed2 = {}
    /\ fs_err2 = FALSE
    /\ scanned2 = EmptyBag
    /\ pushed = <<>>

\* ------------------------------------------------------------------------
\* Phase 1
\* ------------------------------------------------------------------------

\* emit_dir that writes the record in front of the buffered ones.
emit_dir_Prepend(rel_dir) ==
    /\ dirs_emitted' = dirs_emitted + 1
    /\ dirs_file' = [dirs_file EXCEPT !.buf = <<rel_dir>> \o @]

\* emit_dir(rel_dir), under dir_out_lock.
emit_dir(rel_dir) ==
    LET n == dirs_emitted + 1
        f == WriteRec(dirs_file, rel_dir)
    IN  /\ dirs_emitted' = n
        /\ dirs_file' = IF n % DirFlushEvery = 0 THEN Flush(f) ELSE f

\* emit_dir(".") in main
MainSeedEmit ==
    /\ pc = "seed"
    /\ emit_dir(<<".">>)
    /\ pc' = "seed_put"
    /\ UNCHANGED <<tree, run, prev, rd, locks, failed1, tickets, args,
                   dir_q, dir_q_unfinished, w1, sent, faults,
                   dropped, sink_err>>
    /\ UNCHANGED phase2_vars

\* The write in emit_dir(".") raises: nothing catches it in main.
MainSeedEmitError ==
    /\ pc = "seed"
    /\ faults < MaxFaults
    /\ faults' = faults + 1
    /\ sink_err' = TRUE
    /\ pc' = "crashed"
    /\ UNCHANGED <<tree, run, prev, rd, locks, failed1, tickets, args,
                   sent, dropped>>
    /\ UNCHANGED phase1_vars
    /\ UNCHANGED phase2_vars

\* dir_q.put(root)
MainSeedPut ==
    /\ pc = "seed_put"
    /\ ~QFull(dir_q, args.maxq)
    /\ dir_q' = Append(dir_q, Root)
    /\ dir_q_unfinished' = dir_q_unfinished + 1
    /\ pc' = "start1"
    /\ UNCHANGED <<tree, run, prev, rd, locks, failed1, tickets, args,
                   dirs_file, dirs_emitted, w1, sent, faults,
                   dropped, sink_err>>
    /\ UNCHANGED phase2_vars

\* for t in ths1: t.start()
MainStart1 ==
    /\ pc = "start1"
    /\ w1' = [i \in Workers1 |-> [w1[i] EXCEPT !.pc = "get"]]
    /\ pc' = "join1"
    /\ UNCHANGED <<tree, run, prev, rd, locks, failed1, tickets, args,
                   dir_q, dir_q_unfinished, dirs_file, dirs_emitted,
                   sent, faults, dropped, sink_err>>
    /\ UNCHANGED phase2_vars

\* d = dir_q.get()
DirWorkerGet(i) ==
    /\ w1[i].pc = "get"
    /\ dir_q # <<>>
    /\ dir_q' = Tail(dir_q)
    /\ w1' = [w1 EXCEPT ![i].d = Head(dir_q),
                        ![i].pc = IF Head(dir_q) = Stop THEN "stopping" ELSE "scan"]
    /\ UNCHANGED <<tree, run, prev, rd, locks, failed1, tickets, args,
                   pc, dir_q_unfinished, dirs_file, dirs_emitted,
                   sent, faults, dropped, sink_err>>
    /\ UNCHANGED phase2_vars

\* if d is stop: dir_q.task_done(); return
DirWorkerStop(i) ==
    /\ w1[i].pc = "stopping"
    /\ dir_q_unfinished' = dir_q_unfinished - 1
    /\ w1' = [w1 EXCEPT ![i].pc = "exit"]
    /\ UNCHANGED <<tree, run, prev, rd, locks, failed1, tickets, args,
                   pc, dir_q, dirs_file, dirs_emitted, sent, faults,
                   dropped, sink_err>>
    /\ UNCHANGED phase2_vars

\* DirWorkerScan that marks the item done before its children are put.
DirWorkerScan_DoneFirst(i) ==
    /\ w1[i].pc = "scan"
    /\ w1' = [w1 EXCEPT ![i].it = scandir(Tree(tree), w1[i].d), ![i].pc = "iter"]
    /\ dir_q_unfinished' = dir_q_unfinished - 1
    /\ UNCHANGED <<tree, run, prev, rd, locks, failed1, tickets, args,
                   pc, dir_q, dirs_file,
                   dirs_emitted, sent, faults, dropped, sink_err>>
    /\ UNCHANGED phase2_vars

\* with os.scandir(d) as it
DirWorkerScan(i) ==
    /\ w1[i].pc = "scan"
    /\ w1' = [w1 EXCEPT ![i].it = scandir(Tree(tree), w1[i].d), ![i].pc = "iter"]
    /\ UNCHANGED <<tree, run, prev, rd, locks, failed1, tickets, args,
                   pc, dir_q, dir_q_unfinished, dirs_file,
                   dirs_emitted, sent, faults, dropped, sink_err>>
    /\ UNCHANGED phase2_vars

\* Wanted with the exclusion list matched against the path relative to the
\* root instead of the entry's name.
Wanted_ExcludeByRelPath(de) ==
    /\ is_dir(de, args.follow_symlinks)
    /\ relpath(Root, de.path) \notin {<<x>> : x \in args.exclude}

\* Wanted with the exclusion list never consulted.
Wanted_IgnoreExclude(de) == is_dir(de, args.follow_symlinks)

\* The test of lines 76-77: de is a directory to record and expand.
Wanted(de) == is_dir(de, args.follow_symlinks) /\ de.name \notin args.exclude

\* One turn of `for de in it`: an entry that is not a directory, or is
\* excluded, is passed over; a directory is recorded by emit_dir and is
\* then to be put on the queue.
DirWorkerEntry(i) ==
    /\ w1[i].pc = "iter"
    /\ w1[i].it # <<>>
    /\ LET de == Head(w1[i].it)
       IN  IF Wanted(de)
           THEN /\ emit_dir(relpath(Root, de.path))
                /\ w1' = [w1 EXCEPT ![i].it = Tail(@), ![i].pc = "put",
                                    ![i].child = de.path]
           ELSE /\ w1' = [w1 EXCEPT ![i].it = Tail(@)]
                /\ UNCHANGED <<dirs_file, dirs_emitted>>
    /\ UNCHANGED <<tree, run, prev, rd, locks, failed1, tickets, args,
                   pc, dir_q, dir_q_unfinished, sent, faults,
                   dropped, sink_err>>
    /\ UNCHANGED phase2_vars

\* dir_q.put(de.path): blocks while the queue is full.
DirWorkerPut(i) ==
    /\ w1[i].pc = "put"
    /\ ~QFull(dir_q, args.maxq)
    /\ dir_q' = Append(dir_q, w1[i].child)
    /\ dir_q_unfinished' = dir_q_unfinished + 1
    /\ w1' = [w1 EXCEPT ![i].pc = "iter", ![i].child = <<>>]
    /\ UNCHANGED <<tree, run, prev, rd, locks, failed1, tickets, args,
                   pc, dirs_file, dirs_emitted, sent, faults,
                   dropped, sink_err>>
    /\ UNCHANGED phase2_vars

\* The listing is exhausted (or was abandoned): finally: dir_q.task_done()
DirWorkerTaskDone(i) ==
    /\ w1[i].pc = "iter"
    /\ w1[i].it = <<>>
    /\ dir_q_unfinished' = dir_q_unfinished - 1
    /\ w1' = [w1 EXCEPT ![i].pc = "get", ![i].d = <<>>]
    /\ UNCHANGED <<tree, run, prev, rd, locks, failed1, tickets, args,
                   pc, dir_q, dirs_file, dirs_emitted, sent, faults,
                   dropped, sink_err>>
    /\ UNCHANGED phase2_vars

\* The directories among the entries `it` that lines 76-80 would record.
WantedPaths(it) == {de.path : de \in {e \in Range(it) : Wanted(e)}}

\* os.scandir(d) raises, or the iterator raises between two entries:
\* except (PermissionError, OSError): pass -- the rest of d is abandoned.
DirWorkerListError(i) ==
    /\ w1[i].pc \in {"scan", "iter"}
    /\ faults < MaxFaults
    /\ faults' = faults + 1
    /\ failed1' = failed1 \cup {w1[i].d}
    /\ LET rest == IF w1[i].pc = "scan" THEN scandir(Tree(tree), w1[i].d)
                   ELSE w1[i].it
       IN  dropped' = dropped \cup WantedPaths(rest)
    /\ w1' = [w1 EXCEPT ![i].it = <<>>, ![i].pc = "iter"]
    /\ UNCHANGED <<tree, run, prev, rd, locks, tickets, args,
                   pc, dir_q, dir_q_unfinished, dirs_file,
                   dirs_emitted, sent, sink_err>>
    /\ UNCHANGED phase2_vars

\* de.is_dir() raises for the entry at hand:
\* except (PermissionError, OSError): continue
DirWorkerEntryError(i) ==
    /\ w1[i].pc = "iter"
    /\ w1[i].it # <<>>
    /\ faults < MaxFaults
    /\ faults' = faults + 1
    /\ dropped' = dropped \cup WantedPaths(<<Head(w1[i].it)>>)
    /\ w1' = [w1 EXCEPT ![i].it = Tail(@)]
    /\ UNCHANGED <<tree, run, prev, rd, locks, failed1, tickets, args,
                   pc, dir_q, dir_q_unfinished, dirs_file,
                   dirs_emitted, sent, sink_err>>
    /\ UNCHANGED phase2_vars

\* dirs_file.write() raises OSError inside emit_dir called by the worker:
\* the handler of line 81 catches it and the loop continues; the record is
\* not written and the directory is not put on the queue.
DirWorkerEmitError(i) ==
    /\ w1[i].pc = "iter"
    /\ w1[i].it # <<>>
    /\ Wanted(Head(w1[i].it))
    /\ faults < MaxFaults
    /\ faults' = faults + 1
    /\ sink_err' = TRUE
    /\ dropped' = dropped \cup {Head(w1[i].it).path}
    /\ w1' = [w1 EXCEPT ![i].it = Tail(@)]
    /\ UNCHANGED <<tree, run, prev, rd, locks, failed1, tickets, args,
                   pc, dir_q, dir_q_unfinished, dirs_file,
                   dirs_emitted, sent>>
    /\ UNCHANGED phase2_vars

\* dir_q.join()
MainJoin1 ==
    /\ pc = "join1"
    /\ dir_q_unfinished = 0
    /\ pc' = "stop1"
    /\ sent' = 0
    /\ UNCHANGED <<tree, run, prev, rd, locks, failed1, tickets, args,
                   faults, dropped, sink_err>>
    /\ UNCHANGED phase1_vars
    /\ UNCHANGED phase2_vars

\* MainStop1 that puts one sentinel fewer than there are threads.
MainStop1_OneShort ==
    /\ pc = "stop1"
    /\ IF sent < NumThreads(args.workers1) - 1
       THEN /\ ~QFull(dir_q, args.maxq)
            /\ dir_q' = Append(dir_q, Stop)
            /\ dir_q_unfinished' = dir_q_unfinished + 1
            /\ sent' = sent + 1
            /\ pc' = pc
       ELSE /\ pc' = "tjoin1"
            /\ UNCHANGED <<dir_q, dir_q_unfinished, sent>>
    /\ UNCHANGED <<tree, run, prev, rd, locks, failed1, tickets, args,
                   dirs_file, dirs_emitted, w1, faults, dropped,
                   sink_err>>
    /\ UNCHANGED phase2_vars

\* for _ in ths1: dir_q.put(stop)
MainStop1 ==
    /\ pc = "stop1"
    /\ IF sent < NumThreads(args.workers1)
       THEN /\ ~QFull(dir_q, args.maxq)
            /\ dir_q' = Append(dir_q, Stop)
            /\ dir_q_unfinished' = dir_q_unfinished + 1
            /\ sent' = sent + 1
            /\ pc' = pc
       ELSE /\ pc' = "tjoin1"
            /\ UNCHANGED <<dir_q, dir_q_unfinished, sent>>
    /\ UNCHANGED <<tree, run, prev, rd, locks, failed1, tickets, args,
                   dirs_file, dirs_emitted, w1, faults, dropped,
                   sink_err>>
    /\ UNCHANGED phase2_vars

\* MainThreadJoin1 that does not wait for the threads.
MainThreadJoin1_NoWait ==
    /\ pc = "tjoin1"
    /\ pc' = "close1"
    /\ UNCHANGED <<tree, run, prev, rd, locks, failed1, tickets, args,
                   sent, faults, dropped, sink_err>>
    /\ UNCHANGED phase1_vars
    /\ UNCHANGED phase2_vars

\* for t in ths1: t.join()
MainThreadJoin1 ==
    /\ pc = "tjoin1"
    /\ \A i \in Workers1 : w1[i].pc = "exit"
    /\ pc' = "close1"
    /\ UNCHANGED <<tree, run, prev, rd, locks, failed1, tickets, args,
                   sent, faults, dropped, sink_err>>
    /\ UNCHANGED phase1_vars
    /\ UNCHANGED phase2_vars

\* dirs_file.flush(); dirs_file.close()
MainClose1 ==
    /\ pc = "close1"
    /\ dirs_file' = FlushClose(dirs_file)
    /\ pc' = "open2"
    /\ UNCHANGED <<tree, run, prev, rd, locks, failed1, tickets, args,
                   dir_q, dir_q_unfinished, dirs_emitted, w1, sent,
                   faults, dropped, sink_err>>
    /\ UNCHANGED phase2_vars

\* dirs_file.flush() raises in main: the run ends with the traceback.
MainClose1Error ==
    /\ pc = "close1"
    /\ faults < MaxFaults
    /\ faults' = faults + 1
    /\ sink_err' = TRUE
    /\ pc' = "crashed"
    /\ UNCHANGED <<tree, run, prev, rd, locks, failed1, tickets, args,
                   sent, dropped>>
    /\ UNCHANGED phase1_vars
    /\ UNCHANGED phase2_vars

Phase1 ==
    \/ MainSeedEmit
    \/ MainSeedPut
    \/ MainStart1
    \/ \E i \in Workers1 : DirWorkerGet(i)
    \/ \E i \in Workers1 : DirWorkerStop(i)
    \/ \E i \in Workers1 : DirWorkerScan(i)
    \/ \E i \in Workers1 : DirWorkerEntry(i)
    \/ \E i \in Workers1 : DirWorkerPut(i)
    \/ \E i \in Workers1 : DirWorkerTaskDone(i)
    \/ MainJoin1
    \/ MainStop1
    \/ MainThreadJoin1
    \/ MainClose1

Phase1Errors ==
    \/ MainSeedEmitError
    \/ \E i \in Workers1 : DirWorkerListError(i)
    \/ \E i \in Workers1 : DirWorkerEntryError(i)
    \/ \E i \in Workers1 : DirWorkerEmitError(i)
    \/ MainClose1Error

\* ------------------------------------------------------------------------
\* Phase 2
\* ------------------------------------------------------------------------

\* The content of the k-th output file before it is opened: the outputs of
\* an earlier run at the same paths, else nothing.
Existing(files, k) == IF k <= Len(files) THEN files[k].disk ELSE <<>>

\* open_outputs(out_manifest, outdir, shards): the shard files, or the one
\* manifest, each opened in append mode ("ab").
open_outputs(shards, files) ==
    IF shards > 0 THEN [k \in 1..shards |-> OpenAppend(Existing(files, k))]
    ELSE <<OpenAppend(Existing(files, 1))>>

\* int.from_bytes(h, "little") % n, the bytes taken from the most
\* significant (last) one down.
RECURSIVE FromBytesLittleMod(_, _)
FromBytesLittleMod(h, n) ==
    IF h = <<>> THEN 0
    ELSE (FromBytesLittleMod(Tail(h), n) * 256 + Head(h)) % n

\* choose_out that hashes the file's full path in mode bydir too.
choose_out_ByFullPath(full_rel_path, dir_rel) ==
    IF Len(outs) = 1 THEN 0
    ELSE IF args.mode = "roundrobin" THEN rr_counter % Len(outs)
    ELSE FromBytesLittleMod(blake2b[full_rel_path], Len(outs))

\* choose_out that takes the shard from the number of files written so far.
choose_out_ByCount(full_rel_path, dir_rel) ==
    IF Len(outs) = 1 THEN 0 ELSE files_emitted % Len(outs)

\* choose_out(full_rel_path, dir_rel): the index returned (0-based)
choose_out(full_rel_path, dir_rel) ==
    IF Len(outs) = 1 THEN 0
    ELSE IF args.mode = "roundrobin" THEN rr_counter % Len(outs)
    ELSE IF args.mode = "bydir" THEN FromBytesLittleMod(blake2b[dir_rel], Len(outs))
    ELSE FromBytesLittleMod(blake2b[full_rel_path], Len(outs))

\* choose_out: rr_counter after the call (rr_counter += 1 under rr_lock)
choose_out_counter ==
    IF Len(outs) # 1 /\ args.mode = "roundrobin" THEN rr_counter + 1
    ELSE rr_counter

\* choose_out in mode roundrobin: the value i read from rr_counter under
\* rr_lock, with the file it is read for and the index returned.
choose_out_ticket(full_rel_path, dir_rel) ==
    IF Len(outs) # 1 /\ args.mode = "roundrobin"
    THEN <<[file |-> full_rel_path, i |-> rr_counter,
            idx |-> choose_out(full_rel_path, dir_rel)]>>
    ELSE <<>>

\* dir_abs = root if dir_rel == "." else os.path.join(root, dir_rel)
dir_abs(dir_rel) == IF dir_rel = <<".">> THEN Root ELSE Root \o dir_rel

\* rel_file = de.name if dir_rel == "." else dir_rel + os.sep + de.name
rel_file_of(dir_rel, de) ==
    IF dir_rel = <<".">> THEN <<de.name>> ELSE Append(dir_rel, de.name)

\* buf[start:i].decode(...) or "."
DecodeRecord(rec) == IF rec = <<>> THEN <<".">> ELSE rec

\* outs = open_outputs(...); out_locks, rr_counter, files_emitted, dir_in_q
MainOpen2 ==
    /\ pc = "open2"
    /\ outs' = open_outputs(args.shards, outs)
    /\ rr_counter' = 0
    /\ files_emitted' = 0
    /\ dir_in_q' = <<>>
    /\ dir_in_q_unfinished' = 0
    /\ pc' = "start2"
    /\ UNCHANGED <<tree, run, prev, rd, locks, failed1, tickets, args,
                   sent, faults, dropped, sink_err, read_pos, w2,
                   scanned2, pushed, failed2, fs_err2>>
    /\ UNCHANGED phase1_vars

\* for t in ths2: t.start(); with open(args.dirs_out, "rb") as f
MainStart2 ==
    /\ pc = "start2"
    /\ w2' = [i \in Workers2 |-> [w2[i] EXCEPT !.pc = "get"]]
    /\ read_pos' = 0
    /\ pc' = "read"
    /\ UNCHANGED <<tree, run, prev, rd, locks, failed1, tickets, args,
                   sent, faults, dropped, sink_err, outs,
                   rr_counter, files_emitted, dir_in_q, dir_in_q_unfinished,
                   scanned2, pushed, failed2, fs_err2>>
    /\ UNCHANGED phase1_vars

\* The ledger stream reader: the next record of the file is decoded and
\* put on dir_in_q (the put blocks while the queue is full); at the end of
\* the file the loop is left.
MainRead ==
    /\ pc = "read"
    /\ IF read_pos < Len(dirs_file.disk)
       THEN LET dir_rel == DecodeRecord(dirs_file.disk[read_pos + 1])
            IN  /\ ~QFull(dir_in_q, args.maxq)
                /\ dir_in_q' = Append(dir_in_q, dir_rel)
                /\ dir_in_q_unfinished' = dir_in_q_unfinished + 1
                /\ pushed' = Append(pushed, dir_rel)
                /\ read_pos' = read_pos + 1
                /\ pc' = pc
       ELSE /\ pc' = "join2"
            /\ UNCHANGED <<dir_in_q, dir_in_q_unfinished, pushed, read_pos>>
    /\ UNCHANGED <<tree, run, prev, rd, locks, failed1, tickets, args,
                   sent, faults, dropped, sink_err, outs,
                   rr_counter, files_emitted, w2, scanned2, failed2, fs_err2>>
    /\ UNCHANGED phase1_vars

\* FileWorkerGet that leaves the item on the queue.
FileWorkerGet_Peek(i) ==
    /\ w2[i].pc = "get"
    /\ dir_in_q # <<>>
    /\ dir_in_q' = dir_in_q
    /\ w2' = [w2 EXCEPT ![i].dir_rel = Head(dir_in_q),
                        ![i].pc = IF Head(dir_in_q) = Stop THEN "stopping" ELSE "scan"]
    /\ UNCHANGED <<tree, run, prev, rd, locks, failed1, tickets, args,
                   pc, sent, faults, dropped, sink_err, outs,
                   rr_counter, files_emitted, dir_in_q_unfinished, read_pos,
                   scanned2, pushed, failed2, fs_err2>>
    /\ UNCHANGED phase1_vars

\* dir_rel = dir_in_q.get()
FileWorkerGet(i) ==
    /\ w2[i].pc = "get"
    /\ dir_in_q # <<>>
    /\ dir_in_q' = Tail(dir_in_q)
    /\ w2' = [w2 EXCEPT ![i].dir_rel = Head(dir_in_q),
                        ![i].pc = IF Head(dir_in_q) = Stop THEN "stopping" ELSE "scan"]
    /\ UNCHANGED <<tree, run, prev, rd, locks, failed1, tickets, args,
                   pc, sent, faults, dropped, sink_err, outs,
                   rr_counter, files_emitted, dir_in_q_unfinished, read_pos,
                   scanned2, pushed, failed2, fs_err2>>
    /\ UNCHANGED phase1_vars

\* if dir_rel is stop: dir_in_q.task_done(); return
FileWorkerStop(i) ==
    /\ w2[i].pc = "stopping"
    /\ dir_in_q_unfinished' = dir_in_q_unfinished - 1
    /\ w2' = [w2 EXCEPT ![i].pc = "exit"]
    /\ UNCHANGED <<tree, run, prev, rd, locks, failed1, tickets, args,
                   pc, sent, faults, dropped, sink_err, outs,
                   rr_counter, files_emitted, dir_in_q, read_pos, scanned2,
                   pushed, failed2, fs_err2>>
    /\ UNCHANGED phase1_vars

\* with os.scandir(dir_abs) as it
FileWorkerScan(i) ==
    /\ w2[i].pc = "scan"
    /\ w2' = [w2 EXCEPT ![i].it = scandir(Tree(tree), dir_abs(w2[i].dir_rel)),
                        ![i].pc = "iter"]
    /\ scanned2' = scanned2 (+) SetToBag({w2[i].dir_rel})
    /\ UNCHANGED <<tree, run, prev, rd, locks, failed1, tickets, args,
                   pc, sent, faults, dropped, sink_err, outs,
                   rr_counter, files_emitted, dir_in_q, dir_in_q_unfinished,
                   read_pos, pushed, failed2, fs_err2>>
    /\ UNCHANGED phase1_vars

\* One turn of `for de in it`: an entry that is no regular file is passed
\* over; for a regular file the relative path is built and choose_out
\* picks the output.
FileWorkerEntry(i) ==
    /\ w2[i].pc = "iter"
    /\ w2[i].it # <<>>
    /\ LET de == Head(w2[i].it)
           rel_file == rel_file_of(w2[i].dir_rel, de)
       IN  IF is_file(de)
           THEN /\ w2' = [w2 EXCEPT ![i].it = Tail(@), ![i].pc = "write",
                                    ![i].rel_file = rel_file,
                                    ![i].idx = choose_out(rel_file, w2[i].dir_rel)]
                /\ rr_counter' = choose_out_counter
                /\ tickets' = tickets \o choose_out_ticket(rel_file, w2[i].dir_rel)
           ELSE /\ w2' = [w2 EXCEPT ![i].it = Tail(@)]
                /\ UNCHANGED <<rr_counter, tickets>>
    /\ UNCHANGED <<tree, run, prev, rd, locks, failed1, args,
                   pc, sent, faults, dropped, sink_err, outs,
                   files_emitted, dir_in_q, dir_in_q_unfinished, read_pos,
                   scanned2, pushed, failed2, fs_err2>>
    /\ UNCHANGED phase1_vars

\* with out_locks[idx]: outs[idx].write(b)
FileWorkerWrite(i) ==
    /\ w2[i].pc = "write"
    /\ outs' = [outs EXCEPT ![w2[i].idx + 1] = WriteRec(@, w2[i].rel_file)]
    /\ w2' = [w2 EXCEPT ![i].pc = "count"]
    /\ UNCHANGED <<tree, run, prev, rd, locks, failed1, tickets, args,
                   pc, sent, faults, dropped, sink_err, rr_counter,
                   files_emitted, dir_in_q, dir_in_q_unfinished, read_pos,
                   scanned2, pushed, failed2, fs_err2>>
    /\ UNCHANGED phase1_vars

\* with files_lock: files_emitted += 1, and every FileFlushEvery files
\* every output is flushed under its lock.
FileWorkerCount(i) ==
    /\ w2[i].pc = "count"
    /\ files_emitted' = files_emitted + 1
    /\ outs' = IF (files_emitted + 1) % FileFlushEvery = 0
               THEN [k \in 1..Len(outs) |-> Flush(outs[k])]
               ELSE outs
    /\ w2' = [w2 EXCEPT ![i].pc = "iter", ![i].rel_file = <<>>, ![i].idx = 0]
    /\ UNCHANGED <<tree, run, prev, rd, locks, failed1, tickets, args,
                   pc, sent, faults, dropped, sink_err, rr_counter,
                   dir_in_q, dir_in_q_unfinished, read_pos, scanned2, pushed,
                   failed2, fs_err2>>
    /\ UNCHANGED phase1_vars

\* The listing is exhausted (or was abandoned): finally: dir_in_q.task_done()
FileWorkerTaskDone(i) ==
    /\ w2[i].pc = "iter"
    /\ w2[i].it = <<>>
    /\ dir_in_q_unfinished' = dir_in_q_unfinished - 1
    /\ w2' = [w2 EXCEPT ![i].pc = "get", ![i].dir_rel = <<>>]
    /\ UNCHANGED <<tree, run, prev, rd, locks, failed1, tickets, args,
                   pc, sent, faults, dropped, sink_err, outs,
                   rr_counter, files_emitted, dir_in_q, read_pos, scanned2,
                   pushed, failed2, fs_err2>>
    /\ UNCHANGED phase1_vars

\* FileWorkerListError with the exception left uncaught: the thread dies.
FileWorkerListError_Dies(i) ==
    /\ w2[i].pc \in {"scan", "iter"}
    /\ faults < MaxFaults
    /\ faults' = faults + 1
    /\ failed2' = failed2 \cup {<<w2[i].dir_rel, w2[i].pc>>}
    /\ fs_err2' = TRUE
    /\ scanned2' = IF w2[i].pc = "scan" THEN scanned2 (+) SetToBag({w2[i].dir_rel})
                   ELSE scanned2
    /\ w2' = [w2 EXCEPT ![i].it = <<>>, ![i].pc = "exit"]
    /\ UNCHANGED <<tree, run, prev, rd, locks, failed1, tickets, args,
                   pc, sent, dropped, sink_err, outs, rr_counter,
                   files_emitted, dir_in_q, dir_in_q_unfinished, read_pos,
                   pushed>>
    /\ UNCHANGED phase1_vars

\* os.scandir(dir_abs) raises, or the iterator raises between two entries:
\* except (PermissionError, OSError): pass -- the rest of the directory is
\* abandoned; what was written before stays written.
FileWorkerListError(i) ==
    /\ w2[i].pc \in {"scan", "iter"}
    /\ faults < MaxFaults
    /\ faults' = faults + 1
    /\ failed2' = failed2 \cup {<<w2[i].dir_rel, w2[i].pc>>}
    /\ fs_err2' = TRUE
    /\ scanned2' = IF w2[i].pc = "scan" THEN scanned2 (+) SetToBag({w2[i].dir_rel})
                   ELSE scanned2
    /\ w2' = [w2 EXCEPT ![i].it = <<>>, ![i].pc = "iter"]
    /\ UNCHANGED <<tree, run, prev, rd, locks, failed1, tickets, args,
                   pc, sent, dropped, sink_err, outs, rr_counter,
                   files_emitted, dir_in_q, dir_in_q_unfinished, read_pos,
                   pushed>>
    /\ UNCHANGED phase1_vars

\* de.is_file() raises for the entry at hand:
\* except (PermissionError, OSError): continue
FileWorkerEntryError(i) ==
    /\ w2[i].pc = "iter"
    /\ w2[i].it # <<>>
    /\ faults < MaxFaults
    /\ faults' = faults + 1
    /\ failed2' = failed2 \cup {<<w2[i].dir_rel, "entry">>}
    /\ fs_err2' = TRUE
    /\ w2' = [w2 EXCEPT ![i].it = Tail(@)]
    /\ UNCHANGED <<tree, run, prev, rd, locks, failed1, tickets, args,
                   pc, sent, dropped, sink_err, outs, rr_counter,
                   files_emitted, dir_in_q, dir_in_q_unfinished, read_pos,
                   scanned2, pushed>>
    /\ UNCHANGED phase1_vars

\* outs[idx].write(b) raises OSError: the handler of line 153 catches it
\* and the loop continues with the next entry; the record is not written
\* and files_emitted is not incremented.
FileWorkerWriteError(i) ==
    /\ w2[i].pc = "write"
    /\ faults < MaxFaults
    /\ faults' = faults + 1
    /\ sink_err' = TRUE
    /\ w2' = [w2 EXCEPT ![i].pc = "iter", ![i].rel_file = <<>>, ![i].idx = 0]
    /\ UNCHANGED <<tree, run, prev, rd, locks, failed1, tickets, args,
                   pc, sent, dropped, outs, rr_counter,
                   files_emitted, dir_in_q, dir_in_q_unfinished, read_pos,
                   scanned2, pushed, failed2, fs_err2>>
    /\ UNCHANGED phase1_vars

\* dir_in_q.join()
MainJoin2 ==
    /\ pc = "join2"
    /\ dir_in_q_unfinished = 0
    /\ pc' = "stop2"
    /\ sent' = 0
    /\ UNCHANGED <<tree, run, prev, rd, locks, failed1, tickets, args,
                   faults, dropped, sink_err>>
    /\ UNCHANGED phase1_vars
    /\ UNCHANGED phase2_vars

\* for _ in ths2: dir_in_q.put(stop)
MainStop2 ==
    /\ pc = "stop2"
    /\ IF sent < NumThreads(args.workers2)
       THEN /\ ~QFull(dir_in_q, args.maxq)
            /\ dir_in_q' = Append(dir_in_q, Stop)
            /\ dir_in_q_unfinished' = dir_in_q_unfinished + 1
            /\ sent' = sent + 1
            /\ pc' = pc
       ELSE /\ pc' = "tjoin2"
            /\ UNCHANGED <<dir_in_q, dir_in_q_unfinished, sent>>
    /\ UNCHANGED <<tree, run, prev, rd, locks, failed1, tickets, args,
                   faults, dropped, sink_err, outs, rr_counter,
                   files_emitted, read_pos, w2, scanned2, pushed, failed2,
                   fs_err2>>
    /\ UNCHANGED phase1_vars

\* MainThreadJoin2 that does not wait for the threads.
MainThreadJoin2_NoWait ==
    /\ pc = "tjoin2"
    /\ pc' = "close2"
    /\ UNCHANGED <<tree, run, prev, rd, locks, failed1, tickets, args,
                   sent, faults, dropped, sink_err>>
    /\ UNCHANGED phase1_vars
    /\ UNCHANGED phase2_vars

\* for t in ths2: t.join()
MainThreadJoin2 ==
    /\ pc = "tjoin2"
    /\ \A i \in Workers2 : w2[i].pc = "exit"
    /\ pc' = "close2"
    /\ UNCHANGED <<tree, run, prev, rd, locks, failed1, tickets, args,
                   sent, faults, dropped, sink_err>>
    /\ UNCHANGED phase1_vars
    /\ UNCHANGED phase2_vars

\* for i, o in enumerate(outs): with out_locks[i]: o.flush(); o.close()
\* and the [PHASE2] report: the run has succeeded.
MainClose2 ==
    /\ pc = "close2"
    /\ outs' = [k \in 1..Len(outs) |-> FlushClose(outs[k])]
    /\ pc' = "done"
    /\ UNCHANGED <<tree, run, prev, rd, locks, failed1, tickets, args,
                   sent, faults, dropped, sink_err, rr_counter,
                   files_emitted, dir_in_q, dir_in_q_unfinished, read_pos, w2,
                   scanned2, pushed, failed2, fs_err2>>
    /\ UNCHANGED phase1_vars

\* o.flush() raises in main: the run ends with the traceback.
MainClose2Error ==
    /\ pc = "close2"
    /\ faults < MaxFaults
    /\ faults' = faults + 1
    /\ sink_err' = TRUE
    /\ pc' = "crashed"
    /\ UNCHANGED <<tree, run, prev, rd, locks, failed1, tickets, args,
                   sent, dropped>>
    /\ UNCHANGED phase1_vars
    /\ UNCHANGED phase2_vars

Phase2 ==
    \/ MainOpen2
    \/ MainStart2
    \/ MainRead
    \/ \E i \in Workers2 : FileWorkerGet(i)
    \/ \E i \in Workers2 : FileWorkerStop(i)
    \/ \E i \in Workers2 : FileWorkerScan(i)
    \/ \E i \in Workers2 : FileWorkerEntry(i)
    \/ \E i \in Workers2 : FileWorkerWrite(i)
    \/ \E i \in Workers2 : FileWorkerCount(i)
    \/ \E i \in Workers2 : FileWorkerTaskDone(i)
    \/ MainJoin2
    \/ MainStop2
    \/ MainThreadJoin2
    \/ MainClose2

Phase2Errors ==
    \/ \E i \in Workers2 : FileWorkerListError(i)
    \/ \E i \in Workers2 : FileWorkerEntryError(i)
    \/ \E i \in Workers2 : FileWorkerWriteError(i)
    \/ MainClose2Error

\* The program in an environment where no I/O operation raises.
Next == Phase1 \/ Phase2

Spec == Init /\ [][Next]_vars

\* Phase 1 alone, with up to MaxFaults I/O errors raised.  Phase 1 reads
\* none of workers2, mode and shards, which are held fixed.
InitPhase1 ==
    /\ Init
    /\ args.workers2 = 1
    /\ args.mode = "bydir"
    /\ args.shards = 0

NextPhase1 == Phase1 \/ Phase1Errors

SpecPhase1 == InitPhase1 /\ [][NextPhase1]_vars

\* The whole program with up to MaxFaults I/O errors raised, with the
\* largest pools and an unbounded queue.
InitFaults ==
    /\ Init
    /\ args.workers1 = MaxWorkers
    /\ args.workers2 = MaxWorkers
    /\ args.maxq = 0
    /\ args.shards \in {0, MaxShards}

NextFaults == Phase1 \/ Phase2 \/ Phase1Errors \/ Phase2Errors

SpecFaults == InitFaults /\ [][NextFaults]_vars

\* main is invoked a second time on the same tree with the same exclusions,
\* symlink handling, mode and shard count, and with any pools and queue
\* capacity; the outputs are either the paths of the first run, whose files
\* are then appended to, or paths that do not exist yet.
Rerun ==
    /\ pc = "done"
    /\ run = 1
    /\ run' = 2
    /\ prev' = [k \in 1..Len(outs) |-> Range(outs[k].disk)]
    /\ \E n1, n2 \in 1..MaxWorkers, q \in 0..MaxQ, fresh \in BOOLEAN :
          /\ args' = [args EXCEPT !.workers1 = n1, !.workers2 = n2, !.maxq = q]
          /\ dirs_file' = OpenAppend(IF fresh THEN <<>> ELSE dirs_file.disk)
          /\ outs' = IF fresh THEN <<>> ELSE outs
          /\ w1' = [i \in 1..NumThreads(n1) |-> IdleWorker]
          /\ w2' = [i \in 1..NumThreads(n2) |-> IdleFileWorker]
    /\ pc' = "seed"
    /\ dir_q' = <<>>
    /\ dir_q_unfinished' = 0
    /\ dirs_emitted' = 0
    /\ sent' = 0
    /\ rr_counter' = 0
    /\ files_emitted' = 0
    /\ dir_in_q' = <<>>
    /\ dir_in_q_unfinished' = 0
    /\ read_pos' = 0
    /\ dropped' = {}
    /\ sink_err' = FALSE
    /\ failed2' = {}
    /\ fs_err2' = FALSE
    /\ scanned2' = EmptyBag
    /\ pushed' = <<>>
    /\ failed1' = {}
    /\ tickets' = <<>>
    /\ UNCHANGED <<tree, rd, locks, faults>>

\* Two runs in an environment where no I/O operation raises: the first with
\* one worker per pool and an unbounded queue, the second with any pools and
\* any queue capacity, both into MaxShards shards in mode bydir or hash.
InitRerun ==
    /\ Init
    /\ args.workers1 = 1
    /\ args.workers2 = 1
    /\ args.maxq = 0
    /\ args.shards = MaxShards
    /\ args.mode \in {"bydir", "hash"}

NextRerun == Phase1 \/ Phase2 \/ Rerun

SpecRerun == InitRerun /\ [][NextRerun]_vars

\* One step of the main thread in phase 1, and one step of dir_worker i.
MainStep1 ==
    \/ MainSeedEmit
    \/ MainSeedPut
    \/ MainStart1
    \/ MainJoin1
    \/ MainStop1
    \/ MainThreadJoin1
    \/ MainClose1

DirWorkerStep(i) ==
    /\ i \in Workers1
    /\ \/ DirWorkerGet(i)
       \/ DirWorkerStop(i)
       \/ DirWorkerScan(i)
       \/ DirWorkerEntry(i)
       \/ DirWorkerPut(i)
       \/ DirWorkerTaskDone(i)

\* Phase 1 in an environment where no I/O operation raises, under a
\* scheduler that lets every thread that can take a step take one.
SpecPhase1Fair ==
    /\ InitPhase1
    /\ [][Phase1]_vars
    /\ WF_vars(MainStep1)
    /\ \A i \in 1..MaxWorkers : WF_vars(DirWorkerStep(i))

\* ------------------------------------------------------------------------
\* The ledger stream reader, byte by byte
\* ------------------------------------------------------------------------

\* The bytes of the model are one-character strings; NUL is the zero byte
\* and Sep is os.sep.
NUL == "NUL"

Sep == "/"

\* rel_dir.encode("utf-8", "surrogatepass"): the names of the model are one
\* ASCII character each, joined by os.sep.
RECURSIVE PathBytes(_)
PathBytes(rel) ==
    IF Len(rel) <= 1 THEN rel
    ELSE <<Head(rel), Sep>> \o PathBytes(Tail(rel))

\* bytes.decode("utf-8", "surrogatepass"), the inverse of PathBytes: the
\* bytes between the separators.
RECURSIVE BytesPath(_)
BytesPath(bs) ==
    IF bs = <<>> THEN <<>>
    ELSE IF Head(bs) = Sep THEN BytesPath(Tail(bs))
    ELSE <<Head(bs)>> \o BytesPath(Tail(bs))

\* The content of a ledger file holding the given records: each is encoded
\* and followed by b"\0" (line 57).
RECURSIVE FileBytes(_)
FileBytes(recs) ==
    IF recs = <<>> THEN <<>>
    ELSE PathBytes(Head(recs)) \o <<NUL>> \o FileBytes(Tail(recs))

\* buf.index(0, start) as a 1-based position, or 0 for ValueError.
IndexOfNul(buf, start) ==
    LET hits == {k \in (start + 1)..Len(buf) : buf[k] = NUL}
    IN  IF hits = {} THEN 0 ELSE CHOOSE k \in hits : \A h \in hits : k <= h

\* chunk = f.read(chunk size); if not chunk: break; buf += chunk; start = 0
ReaderRead ==
    /\ pc = "read"
    /\ ~rd.inner
    /\ LET bytes == FileBytes(dirs_file.disk)
           last == IF rd.pos + rd.chunk < Len(bytes) THEN rd.pos + rd.chunk
                   ELSE Len(bytes)
           chunk == SubSeq(bytes, rd.pos + 1, last)
       IN  IF chunk = <<>>
           THEN /\ pc' = "join2"
                /\ rd' = rd
           ELSE /\ pc' = pc
                /\ rd' = [rd EXCEPT !.pos = last, !.buf = @ \o chunk,
                                    !.start = 0, !.inner = TRUE]
    /\ UNCHANGED <<tree, run, prev, locks, failed1, tickets, args, sent, faults,
                   dropped, sink_err>>
    /\ UNCHANGED phase1_vars
    /\ UNCHANGED phase2_vars

\* ReaderSplit that forgets the bytes after the last NUL of the buffer.
ReaderSplit_DropsTail ==
    /\ pc = "read"
    /\ rd.inner
    /\ LET i == IndexOfNul(rd.buf, rd.start)
       IN  IF i = 0
           THEN /\ rd' = [rd EXCEPT !.buf = <<>>, !.inner = FALSE]
                /\ UNCHANGED <<dir_in_q, dir_in_q_unfinished, pushed, read_pos>>
           ELSE LET dir_rel == DecodeRecord(BytesPath(SubSeq(rd.buf, rd.start + 1, i - 1)))
                IN  /\ ~QFull(dir_in_q, args.maxq)
                    /\ dir_in_q' = Append(dir_in_q, dir_rel)
                    /\ dir_in_q_unfinished' = dir_in_q_unfinished + 1
                    /\ pushed' = Append(pushed, dir_rel)
                    /\ read_pos' = read_pos + 1
                    /\ rd' = [rd EXCEPT !.start = i]
    /\ pc' = pc
    /\ UNCHANGED <<tree, run, prev, locks, failed1, tickets, args, sent, faults,
                   dropped, sink_err, outs, rr_counter, files_emitted, w2,
                   scanned2, failed2, fs_err2>>
    /\ UNCHANGED phase1_vars

\* One turn of the inner loop: i = buf.index(0, start); on ValueError
\* buf = buf[start:] and the loop is left; otherwise buf[start:i] is
\* decoded, put on dir_in_q, and start = i + 1.
ReaderSplit ==
    /\ pc = "read"
    /\ rd.inner
    /\ LET i == IndexOfNul(rd.buf, rd.start)
       IN  IF i = 0
           THEN /\ rd' = [rd EXCEPT !.buf = SubSeq(@, rd.start + 1, Len(@)),
                                    !.inner = FALSE]
                /\ UNCHANGED <<dir_in_q, dir_in_q_unfinished, pushed, read_pos>>
           ELSE LET dir_rel == DecodeRecord(BytesPath(SubSeq(rd.buf, rd.start + 1, i - 1)))
                IN  /\ ~QFull(dir_in_q, args.maxq)
                    /\ dir_in_q' = Append(dir_in_q, dir_rel)
                    /\ dir_in_q_unfinished' = dir_in_q_unfinished + 1
                    /\ pushed' = Append(pushed, dir_rel)
                    /\ read_pos' = read_pos + 1
                    /\ rd' = [rd EXCEPT !.start = i]
    /\ pc' = pc
    /\ UNCHANGED <<tree, run, prev, locks, failed1, tickets, args, sent, faults,
                   dropped, sink_err, outs, rr_counter, files_emitted, w2,
                   scanned2, failed2, fs_err2>>
    /\ UNCHANGED phase1_vars

\* The records a ledger file may hold, and the ledger files of the reader.
RecordPool == {<<".">>, <<"a">>, <<"b", "c">>}

Ledgers == UNION {[1..n -> RecordPool] : n \in 0..MaxRecs}

\* The stream reader alone: the ledger file is closed and holds any
\* records, the file is read in chunks of any size up to MaxChunk, and
\* dir_in_q is unbounded.
InitReader ==
    /\ tree \in TreeNames
    /\ run = 1
    /\ prev = <<>>
    /\ rd \in [chunk : 1..MaxChunk, pos : {0}, buf : {<<>>}, start : {0},
                inner : {FALSE}]
    /\ locks = NoLocks
    /\ failed1 = {}
    /\ tickets = <<>>
    /\ args \in {a \in Args : /\ a.maxq = 0 /\ a.workers1 = 1 /\ a.workers2 = 1
                              /\ a.shards = 0 /\ a.mode = "bydir"
                              /\ a.exclude = {} /\ ~a.follow_symlinks}
    /\ pc = "read"
    /\ dir_q = <<>>
    /\ dir_q_unfinished = 0
    /\ dirs_file \in {FlushClose(OpenAppend(l)) : l \in Ledgers}
    /\ dirs_emitted = 0
    /\ w1 = [i \in Workers1 |-> [IdleWorker EXCEPT !.pc = "exit"]]
    /\ sent = 0
    /\ outs = open_outputs(args.shards, <<>>)
    /\ rr_counter = 0
    /\ files_emitted = 0
    /\ dir_in_q = <<>>
    /\ dir_in_q_unfinished = 0
    /\ read_pos = 0
    /\ w2 = [i \in Workers2 |-> IdleFileWorker]
    /\ faults = 0
    /\ dropped = {}
    /\ sink_err = FALSE
    /\ failed2 = {}
    /\ fs_err2 = FALSE
    /\ scanned2 = EmptyBag
    /\ pushed = <<>>

NextReader == ReaderRead \/ ReaderSplit

SpecReader == InitReader /\ [][NextReader]_vars

\* ------------------------------------------------------------------------
\* Phase 2 with its locks: the steps of file_worker between taking an entry
\* and returning to the loop, one lock operation at a time
\* ------------------------------------------------------------------------

\* rr_lock, files_lock and out_locks[k]; a held lock is a pair of the lock
\* and the file_worker that holds it.
rr_lock == <<"rr", 0>>

files_lock == <<"files", 0>>

out_locks(k) == <<"out", k>>

Free(l) == \A h \in locks.held : h[1] # l

Acquire(l, i) == [locks EXCEPT !.held = @ \cup {<<l, i>>}]

Release(l, i) == [locks EXCEPT !.held = @ \ {<<l, i>>}]

\* (files_emitted & 0xFFFFF) == 0.  FileFlushEvery files are beyond the
\* trees of the model, so here the flush may also be taken after any other
\* file: the lock operations of the code are among those of this
\* specification.
FlushChoices(n) == IF n % FileFlushEvery = 0 THEN {TRUE} ELSE {TRUE, FALSE}

\* One turn of `for de in it` up to the call of choose_out: an entry that is
\* no regular file is passed over; in mode roundrobin with several outputs
\* choose_out goes for rr_lock, otherwise it returns the index at once.
LockedEntry(i) ==
    /\ w2[i].pc = "iter"
    /\ w2[i].it # <<>>
    /\ LET de == Head(w2[i].it)
           rel_file == rel_file_of(w2[i].dir_rel, de)
       IN  IF ~is_file(de)
           THEN w2' = [w2 EXCEPT ![i].it = Tail(@)]
           ELSE IF Len(outs) # 1 /\ args.mode = "roundrobin"
           THEN w2' = [w2 EXCEPT ![i].it = Tail(@), ![i].pc = "rr_wait",
                                 ![i].rel_file = rel_file]
           ELSE w2' = [w2 EXCEPT ![i].it = Tail(@), ![i].pc = "out_wait",
                                 ![i].rel_file = rel_file,
                                 ![i].idx = choose_out(rel_file, w2[i].dir_rel)]
    /\ UNCHANGED <<locks, tickets, outs, rr_counter, files_emitted>>
    /\ UNCHANGED <<tree, run, prev, rd, failed1, args, pc, sent, faults, dropped,
                   sink_err, dir_in_q, dir_in_q_unfinished, read_pos, scanned2,
                   pushed, failed2, fs_err2>>
    /\ UNCHANGED phase1_vars

\* with rr_lock: entered
LockedRRAcquire(i) ==
    /\ w2[i].pc = "rr_wait"
    /\ Free(rr_lock)
    /\ locks' = Acquire(rr_lock, i)
    /\ w2' = [w2 EXCEPT ![i].pc = "rr_held"]
    /\ UNCHANGED <<tickets, outs, rr_counter, files_emitted>>
    /\ UNCHANGED <<tree, run, prev, rd, failed1, args, pc, sent, faults, dropped,
                   sink_err, dir_in_q, dir_in_q_unfinished, read_pos, scanned2,
                   pushed, failed2, fs_err2>>
    /\ UNCHANGED phase1_vars

\* i = rr_counter; rr_counter += 1; the lock is released; return i % len(outs)
LockedRRTake(i) ==
    /\ w2[i].pc = "rr_held"
    /\ tickets' = tickets \o choose_out_ticket(w2[i].rel_file, w2[i].dir_rel)
    /\ rr_counter' = choose_out_counter
    /\ locks' = Release(rr_lock, i)
    /\ w2' = [w2 EXCEPT ![i].pc = "out_wait",
                        ![i].idx = choose_out(w2[i].rel_file, w2[i].dir_rel)]
    /\ UNCHANGED <<outs, files_emitted>>
    /\ UNCHANGED <<tree, run, prev, rd, failed1, args, pc, sent, faults, dropped,
                   sink_err, dir_in_q, dir_in_q_unfinished, read_pos, scanned2,
                   pushed, failed2, fs_err2>>
    /\ UNCHANGED phase1_vars

\* with out_locks[idx]: entered
LockedOutAcquire(i) ==
    /\ w2[i].pc = "out_wait"
    /\ Free(out_locks(w2[i].idx + 1))
    /\ locks' = Acquire(out_locks(w2[i].idx + 1), i)
    /\ w2' = [w2 EXCEPT ![i].pc = "out_held"]
    /\ UNCHANGED <<tickets, outs, rr_counter, files_emitted>>
    /\ UNCHANGED <<tree, run, prev, rd, failed1, args, pc, sent, faults, dropped,
                   sink_err, dir_in_q, dir_in_q_unfinished, read_pos, scanned2,
                   pushed, failed2, fs_err2>>
    /\ UNCHANGED phase1_vars

\* LockedOutWrite with files_lock taken inside `with out_locks[idx]`: the
\* output's lock is still held when the worker goes for files_lock.
LockedOutWrite_KeepsLock(i) ==
    /\ w2[i].pc = "out_held"
    /\ outs' = [outs EXCEPT ![w2[i].idx + 1] = WriteRec(@, w2[i].rel_file)]
    /\ locks' = locks
    /\ w2' = [w2 EXCEPT ![i].pc = "files_wait"]
    /\ UNCHANGED <<tickets, rr_counter, files_emitted>>
    /\ UNCHANGED <<tree, run, prev, rd, failed1, args, pc, sent, faults, dropped,
                   sink_err, dir_in_q, dir_in_q_unfinished, read_pos, scanned2,
                   pushed, failed2, fs_err2>>
    /\ UNCHANGED phase1_vars

\* outs[idx].write(b); the lock is released
LockedOutWrite(i) ==
    /\ w2[i].pc = "out_held"
    /\ outs' = [outs EXCEPT ![w2[i].idx + 1] = WriteRec(@, w2[i].rel_file)]
    /\ locks' = Release(out_locks(w2[i].idx + 1), i)
    /\ w2' = [w2 EXCEPT ![i].pc = "files_wait"]
    /\ UNCHANGED <<tickets, rr_counter, files_emitted>>
    /\ UNCHANGED <<tree, run, prev, rd, failed1, args, pc, sent, faults, dropped,
                   sink_err, dir_in_q, dir_in_q_unfinished, read_pos, scanned2,
                   pushed, failed2, fs_err2>>
    /\ UNCHANGED phase1_vars

\* with files_lock: entered
LockedFilesAcquire(i) ==
    /\ w2[i].pc = "files_wait"
    /\ Free(files_lock)
    /\ locks' = Acquire(files_lock, i)
    /\ w2' = [w2 EXCEPT ![i].pc = "files_held"]
    /\ UNCHANGED <<tickets, outs, rr_counter, files_emitted>>
    /\ UNCHANGED <<tree, run, prev, rd, failed1, args, pc, sent, faults, dropped,
                   sink_err, dir_in_q, dir_in_q_unfinished, read_pos, scanned2,
                   pushed, failed2, fs_err2>>
    /\ UNCHANGED phase1_vars

\* files_emitted += 1; then either the flush loop is entered, files_lock
\* still held, or files_lock is released and the entry is done.
LockedFilesCount(i) ==
    /\ w2[i].pc = "files_held"
    /\ files_emitted' = files_emitted + 1
    /\ \E flush \in FlushChoices(files_emitted + 1) :
          IF flush
          THEN /\ locks' = [locks EXCEPT !.i = 1]
               /\ w2' = [w2 EXCEPT ![i].pc = "flush_wait"]
          ELSE /\ locks' = Release(files_lock, i)
               /\ w2' = [w2 EXCEPT ![i].pc = "iter", ![i].rel_file = <<>>,
                                   ![i].idx = 0]
    /\ UNCHANGED <<tickets, outs, rr_counter>>
    /\ UNCHANGED <<tree, run, prev, rd, failed1, args, pc, sent, faults, dropped,
                   sink_err, dir_in_q, dir_in_q_unfinished, read_pos, scanned2,
                   pushed, failed2, fs_err2>>
    /\ UNCHANGED phase1_vars

\* for i, o in enumerate(outs): with out_locks[i]: entered
LockedFlushAcquire(i) ==
    /\ w2[i].pc = "flush_wait"
    /\ Free(out_locks(locks.i))
    /\ locks' = Acquire(out_locks(locks.i), i)
    /\ w2' = [w2 EXCEPT ![i].pc = "flush_held"]
    /\ UNCHANGED <<tickets, outs, rr_counter, files_emitted>>
    /\ UNCHANGED <<tree, run, prev, rd, failed1, args, pc, sent, faults, dropped,
                   sink_err, dir_in_q, dir_in_q_unfinished, read_pos, scanned2,
                   pushed, failed2, fs_err2>>
    /\ UNCHANGED phase1_vars

\* o.flush(); out_locks[i] is released; after the last output files_lock is
\* released too and the entry is done.
LockedFlushOne(i) ==
    /\ w2[i].pc = "flush_held"
    /\ outs' = [outs EXCEPT ![locks.i] = Flush(@)]
    /\ IF locks.i < Len(outs)
       THEN /\ locks' = [Release(out_locks(locks.i), i) EXCEPT !.i = @ + 1]
            /\ w2' = [w2 EXCEPT ![i].pc = "flush_wait"]
       ELSE /\ locks' = [held |-> locks.held \ {<<out_locks(locks.i), i>>, <<files_lock, i>>},
                         i |-> 0]
            /\ w2' = [w2 EXCEPT ![i].pc = "iter", ![i].rel_file = <<>>,
                                ![i].idx = 0]
    /\ UNCHANGED <<tickets, rr_counter, files_emitted>>
    /\ UNCHANGED <<tree, run, prev, rd, failed1, args, pc, sent, faults, dropped,
                   sink_err, dir_in_q, dir_in_q_unfinished, read_pos, scanned2,
                   pushed, failed2, fs_err2>>
    /\ UNCHANGED phase1_vars

\* One step of the main thread in phase 2, and one step of file_worker i
\* with its lock operations.
MainStep2 ==
    \/ MainOpen2
    \/ MainStart2
    \/ MainRead
    \/ MainJoin2
    \/ MainStop2
    \/ MainThreadJoin2
    \/ MainClose2

LockedFileWorkerStep(i) ==
    /\ i \in Workers2
    /\ \/ FileWorkerGet(i)
       \/ FileWorkerStop(i)
       \/ FileWorkerScan(i)
       \/ LockedEntry(i)
       \/ LockedRRAcquire(i)
       \/ LockedRRTake(i)
       \/ LockedOutAcquire(i)
       \/ LockedOutWrite(i)
       \/ LockedFilesAcquire(i)
       \/ LockedFilesCount(i)
       \/ LockedFlushAcquire(i)
       \/ LockedFlushOne(i)
       \/ FileWorkerTaskDone(i)

NextLocks ==
    \/ Phase1
    \/ MainStep2
    \/ \E i \in 1..MaxWorkers : LockedFileWorkerStep(i)

\* The program in an environment where no I/O operation raises, phase 2
\* taken one lock operation at a time, under a scheduler that lets every
\* thread that can take a step take one.
InitLocks ==
    /\ Init
    /\ args.workers1 = MaxWorkers
    /\ args.exclude = {}
    /\ ~args.follow_symlinks
    /\ args.mode = "roundrobin"

SpecLocks ==
    /\ InitLocks
    /\ [][NextLocks]_vars
    /\ WF_vars(MainStep1)
    /\ WF_vars(MainStep2)
    /\ \A i \in 1..MaxWorkers : WF_vars(DirWorkerStep(i))
    /\ \A i \in 1..MaxWorkers : WF_vars(LockedFileWorkerStep(i))

\* ------------------------------------------------------------------------
\* Reference definitions for the properties
\* ------------------------------------------------------------------------

\* An entry the symlink/exclude policy lets the walk descend into.
Eligible(e) ==
    /\ e.kind = "dir" \/ (args.follow_symlinks /\ e.kind = "lnkdir")
    /\ e.name \notin args.exclude

\* The directories at or below `path` (a path below the root whose real
\* directory is `real`) that a walk reaches without entering a path of `cut`.
RECURSIVE DirsUnder(_, _, _, _)
DirsUnder(fs, path, real, cut) ==
    {path} \cup
    UNION {DirsUnder(fs, Append(path, e.name),
                     IF e.kind = "lnkdir" THEN e.target ELSE Append(real, e.name),
                     cut)
           : e \in {x \in Range(fs[real]) :
                        Eligible(x) /\ (Root \o Append(path, x.name)) \notin cut}}

RelName(path) == IF path = <<>> THEN <<".">> ELSE path

\* The reachable, non-excluded directories under Root, as relative paths.
ReachableDirs == {RelName(p) : p \in DirsUnder(Tree(tree), <<>>, <<>>, {})}

\* Those of them not cut off by an error a phase-1 handler absorbed.
SurvivingDirs == {RelName(p) : p \in DirsUnder(Tree(tree), <<>>, <<>>, dropped)}

\* Every record written to the ledger by this run, flushed or not.
Ledger == dirs_file.disk \o dirs_file.buf

NoDup(s) == \A i, j \in 1..Len(s) : s[i] = s[j] => i = j

\* dir_q.join() has returned.
Phase1Complete == pc \notin {"seed", "seed_put", "start1", "join1", "crashed"}

\* ------------------------------------------------------------------------
\* C1
\* ------------------------------------------------------------------------

\* C1 as stated: when phase 1 completes the Ledger holds exactly the
\* reachable, non-excluded directories, each once.
C1_LedgerExactAlways ==
    Phase1Complete => NoDup(Ledger) /\ Range(Ledger) = ReachableDirs

\* C1, amended: when phase 1 completes the Ledger holds each path at most
\* once and holds exactly the reachable, non-excluded directories that no
\* absorbed error cut off (a directory is missing only if a handler of
\* lines 81-84 absorbed an error at its own entry, at an ancestor's entry or
\* in the listing that was to yield it or an ancestor); with no absorbed
\* error it holds exactly the reachable, non-excluded directories.
C1_LedgerExact ==
    Phase1Complete =>
        /\ NoDup(Ledger)
        /\ Range(Ledger) = SurvivingDirs
        /\ dropped = {} => Range(Ledger) = ReachableDirs

\* Phase 1 has completed with two workers on a tree of at least four
\* reachable directories, symlinks followed, and nothing was cut off.
C1_Witness ==
    /\ pc = "open2"
    /\ args.workers1 = 2
    /\ args.follow_symlinks
    /\ dropped = {}
    /\ Cardinality(ReachableDirs) >= 4
    /\ Range(dirs_file.disk) = ReachableDirs

\* ------------------------------------------------------------------------
\* C2
\* ------------------------------------------------------------------------

\* The regular (non-symlink) files directly contained in the directory a
\* ledger record names, as relative paths.
FilesIn(dir_rel) ==
    LET below == IF dir_rel = <<".">> THEN <<>> ELSE dir_rel
        real == Resolve(Tree(tree), <<>>, below)
    IN  {Append(below, e.name) : e \in {x \in Range(Tree(tree)[real]) : x.kind = "file"}}

\* The files of every directory of the ledger file.
ExpectedFiles == UNION {FilesIn(d) : d \in Range(dirs_file.disk)}

\* Every record written to output k by this run, flushed or not.
ShardRecords(k) == outs[k].disk \o outs[k].buf

Occurrences(rec, s) == Cardinality({i \in 1..Len(s) : s[i] = rec})

RECURSIVE TotalOccurrences(_, _)
TotalOccurrences(rec, k) ==
    IF k = 0 THEN 0
    ELSE Occurrences(rec, outs[k].disk) + TotalOccurrences(rec, k - 1)

\* C2 as stated: when phase 2 completes without listing errors, the files
\* on disk in the shards are exactly the regular files of the Ledger
\* directories, each written once, into one shard.
C2_FilesExactlyOnce ==
    (pc = "done" /\ ~fs_err2) =>
        /\ \A k \in 1..Len(outs) : Range(outs[k].disk) \subseteq ExpectedFiles
        /\ \A f \in ExpectedFiles : TotalOccurrences(f, Len(outs)) = 1

\* ------------------------------------------------------------------------
\* C3
\* ------------------------------------------------------------------------

\* Every dir_worker is blocked in dir_q.put on the full queue while main
\* waits in dir_q.join(): nothing can take an item out any more.
Phase1Deadlocked ==
    /\ pc = "join1"
    /\ QFull(dir_q, args.maxq)
    /\ \A i \in Workers1 : w1[i].pc = "put"

\* C3 as stated: with a queue capacity C >= 1 and any W1 >= 1, no reachable
\* state has every worker blocked on enqueue into the full queue.
C3_NoEnqueueDeadlock == args.maxq >= 1 => ~Phase1Deadlocked

\* ------------------------------------------------------------------------
\* C4
\* ------------------------------------------------------------------------

\* The file_worker threads that hold the work item dir_rel.
Holders(dir_rel) ==
    {i \in Workers2 : w2[i].pc \in {"scan", "iter", "write", "count"}
                        /\ w2[i].dir_rel = dir_rel}

\* dir_in_q.join() has returned.
Phase2Drained == pc \in {"stop2", "tjoin2", "close2", "done"}

\* C4: every record read from the Ledger is put on the phase-2 queue once,
\* in order; a directory is in the queue, held by one worker or finished,
\* never two of these, and is listed at most once; when the queue has been
\* joined every Ledger directory has been listed exactly once.
C4_ScannedExactlyOnce ==
    /\ pushed = SubSeq(dirs_file.disk, 1, read_pos)
    /\ \A d \in Range(pushed) :
          /\ Occurrences(d, dir_in_q) + Cardinality(Holders(d)) <= 1
          /\ CopiesIn(d, scanned2) <= 1
          /\ CopiesIn(d, scanned2) = 1 =>
                Occurrences(d, dir_in_q) = 0
    /\ BagToSet(scanned2) \subseteq Range(pushed)
    /\ Phase2Drained =>
          /\ pushed = dirs_file.disk
          /\ \A d \in Range(dirs_file.disk) : CopiesIn(d, scanned2) = 1

\* The queue has been joined after two workers listed at least three
\* Ledger directories between them.
C4_Witness ==
    /\ Phase2Drained
    /\ args.workers2 = 2
    /\ Len(dirs_file.disk) >= 3
    /\ \A d \in Range(dirs_file.disk) : CopiesIn(d, scanned2) = 1

\* ------------------------------------------------------------------------
\* C5
\* ------------------------------------------------------------------------

\* No component of the path is an excluded name.
Clean(path) == \A k \in 1..Len(path) : path[k] \notin args.exclude

\* C5: no directory with an excluded name, at any depth, is written to the
\* Ledger, put on the phase-1 queue, scanned in phase 1, put on the phase-2
\* queue or listed in phase 2, and no shard record lies beneath one; in the
\* scenario of the spec (tree T1, b excluded, symlinks not followed) the
\* finished run has Ledger {".", "a"} and no file of b in its output.
C5_ExcludedInvisible ==
    /\ \A r \in Range(Ledger) : Clean(r)
    /\ \A k \in 1..Len(dir_q) : dir_q[k] # Stop => Clean(Below(dir_q[k]))
    /\ \A i \in Workers1 : Clean(Below(w1[i].d)) /\ Clean(Below(w1[i].child))
    /\ \A r \in Range(pushed) : Clean(r)
    /\ \A r \in BagToSet(scanned2) : Clean(r)
    /\ \A k \in 1..Len(outs) : \A r \in Range(ShardRecords(k)) : Clean(Front(r))
    /\ \A i \in Workers2 : w2[i].rel_file # <<>> => Clean(Front(w2[i].rel_file))
    /\ (pc = "done" /\ tree = "T1" /\ args.exclude = {"b"} /\ ~args.follow_symlinks) =>
          /\ Range(dirs_file.disk) = {<<".">>, <<"a">>}
          /\ UNION {Range(outs[k].disk) : k \in 1..Len(outs)} = {<<"f">>, <<"a", "x">>}

\* A finished run over the tree whose excluded name b occurs at depth 1
\* and at depth 2 (e/b), with the rest of the tree recorded and listed.
C5_Witness ==
    /\ pc = "done"
    /\ tree = "T2"
    /\ args.exclude = {"b"}
    /\ Range(dirs_file.disk) = {<<".">>, <<"e">>}
    /\ UNION {Range(outs[k].disk) : k \in 1..Len(outs)} = {<<"e", "r">>}

\* ------------------------------------------------------------------------
\* C6
\* ------------------------------------------------------------------------

\* C6 as stated: once a write to an output sink has raised, the run never
\* reaches its successful end.
C6_SinkErrorIsFatal == sink_err => pc # "done"

\* ------------------------------------------------------------------------
\* C7
\* ------------------------------------------------------------------------

\* A file_worker has been started or the ledger has been opened for reading.
Phase2Started ==
    \/ \E i \in Workers2 : w2[i].pc # "new"
    \/ pc \in {"read", "join2", "stop2", "tjoin2", "close2", "done"}
    \/ read_pos > 0
    \/ pushed # <<>>

\* C7: whenever a phase-2 worker has started or the Ledger is being read,
\* the phase-1 queue is joined and empty, every dir_worker has exited and
\* the Ledger writer is flushed and closed, so nothing can write the Ledger
\* any more.
C7_PhasesDisjoint ==
    Phase2Started =>
        /\ dir_q = <<>>
        /\ dir_q_unfinished = 0
        /\ \A i \in Workers1 : w1[i].pc = "exit"
        /\ dirs_file.closed
        /\ dirs_file.buf = <<>>

\* Phase 2 is under way after a phase 1 run by two workers.
C7_Witness ==
    /\ args.workers1 = 2
    /\ \E i \in Workers2 : w2[i].pc = "write"
    /\ read_pos >= 2
    /\ dirs_file.closed

\* ------------------------------------------------------------------------
\* C8
\* ------------------------------------------------------------------------

\* The owning directory of a file record, as its relative path.
OwningDir(rel_file) == IF Len(rel_file) = 1 THEN <<".">> ELSE Front(rel_file)

\* C8: in bydir mode every index chosen is in [0, N), and any two files
\* that share their owning directory are written to the same shard.
C8_BydirSameShard ==
    (args.mode = "bydir" /\ outs # <<>>) =>
        /\ \A i \in Workers2 : w2[i].idx \in 0..(Len(outs) - 1)
        /\ \A j, k \in 1..Len(outs) :
              \A r \in Range(ShardRecords(j)) : \A q \in Range(ShardRecords(k)) :
                  OwningDir(r) = OwningDir(q) => j = k

\* With two shards in bydir mode, the two files of directory b have both
\* been written, by two workers.
C8_Witness ==
    /\ args.mode = "bydir"
    /\ args.workers2 = 2
    /\ Len(outs) = 2
    /\ \E j \in 1..2 : {<<"b", "p">>, <<"b", "t">>} \subseteq Range(ShardRecords(j))

\* ------------------------------------------------------------------------
\* C10
\* ------------------------------------------------------------------------

\* The directories whose listing raised when it was opened, while it was
\* iterated, and at all.
FailedAtOpen == {f[1] : f \in {g \in failed2 : g[2] = "scan"}}

FailedInIteration == {f[1] : f \in {g \in failed2 : g[2] = "iter"}}

FailedDirs == FailedAtOpen \cup FailedInIteration

\* The records of directory d in the outputs, written or about to be.
RecordsOf(d) ==
    {r \in UNION {Range(ShardRecords(k)) : k \in 1..Len(outs)} : OwningDir(r) = d}

\* C10 as stated: a directory whose phase-2 listing raised, at the open or
\* while its entries were iterated, has no file in any shard.
C10_FailedDirEmitsNothing == \A d \in FailedDirs : RecordsOf(d) = {}

\* C10, amended: a directory whose listing raised when it was opened has no
\* file in any shard; one whose listing raised during the iteration keeps
\* the records written before the error, all of them regular files of that
\* directory and none twice.  In both cases the worker stays alive (no
\* file_worker exits before the sentinels are sent), the work item is
\* marked done (with the queue empty and every worker waiting, no task is
\* unfinished), and the other directories are processed: once the queue is
\* joined every Ledger directory has been listed once, and at the end of a
\* run with no other error every file of the other directories is in the
\* shards.
C10_FailedDirKeepsPrefix ==
    /\ \A d \in FailedAtOpen : RecordsOf(d) = {}
    /\ \A d \in FailedInIteration :
          /\ RecordsOf(d) \subseteq FilesIn(d)
          /\ \A r \in RecordsOf(d) :
                Cardinality({k \in 1..Len(outs) : r \in Range(ShardRecords(k))}) = 1
                /\ \A k \in 1..Len(outs) : Occurrences(r, ShardRecords(k)) <= 1
    /\ pc \in {"read", "join2"} => \A i \in Workers2 : w2[i].pc # "exit"
    /\ (dir_in_q = <<>> /\ \A i \in Workers2 : w2[i].pc = "get") =>
          dir_in_q_unfinished = 0
    /\ Phase2Drained =>
          \A d \in Range(dirs_file.disk) : CopiesIn(d, scanned2) = 1
    /\ (pc = "done" /\ ~sink_err /\ \A f \in failed2 : f[2] # "entry") =>
          \A d \in Range(dirs_file.disk) \ FailedDirs :
              FilesIn(d) \subseteq UNION {Range(outs[k].disk) : k \in 1..Len(outs)}

\* A finished run in which the listing of e raised after its file r had
\* been written, and the files of the root directory are in the shards.
C10_Witness ==
    /\ pc = "done"
    /\ tree = "T2"
    /\ <<"e">> \in FailedInIteration
    /\ RecordsOf(<<"e">>) = {<<"e", "r">>}
    /\ <<"b">> \in Range(dirs_file.disk)
    /\ FilesIn(<<"b">>) \subseteq UNION {Range(outs[k].disk) : k \in 1..Len(outs)}

\* ------------------------------------------------------------------------
\* C9
\* ------------------------------------------------------------------------

\* The shard -> set of file paths that the shard files hold.
Partition == [k \in 1..Len(outs) |-> Range(outs[k].disk)]

\* C9: in the modes bydir and hash, when a second run over the same tree
\* with the same shard count has completed, whatever its pools, its queue
\* capacity and its interleaving, the shard -> set of file paths it leaves
\* is the one the first run left.
C9_SamePartition ==
    (run = 2 /\ pc = "done" /\ args.mode \in {"bydir", "hash"}) =>
        Partition = prev

\* A second run with two workers per pool has completed in hash mode and
\* both shards hold files.
C9_Witness ==
    /\ run = 2
    /\ pc = "done"
    /\ args.mode = "hash"
    /\ args.workers1 = 2
    /\ args.workers2 = 2
    /\ \A k \in 1..Len(outs) : outs[k].disk # <<>>
    /\ Len(outs) = MaxShards

\* ------------------------------------------------------------------------
\* C11
\* ------------------------------------------------------------------------

\* Relative path r lies strictly beneath relative path d.
Beneath(r, d) ==
    IF d = <<".">> THEN r # <<".">>
    ELSE Len(r) > Len(d) /\ SubSeq(r, 1, Len(d)) = d

\* The relative paths of the directories whose phase-1 listing raised.
FailedRel == {relpath(Root, d) : d \in failed1}

\* Directory r was cut off by an absorbed error at an entry (is_dir or the
\* ledger write raised) outside the directories whose listing raised.
CutElsewhere(r) ==
    \E p \in dropped :
        /\ \A d \in FailedRel : ~Beneath(relpath(Root, p), d)
        /\ (r = relpath(Root, p) \/ Beneath(r, relpath(Root, p)))

\* C11 as stated: the Ledger entry of a directory whose listing raised
\* remains; while main waits in dir_q.join() no worker has exited and, with
\* the queue empty and every worker waiting, no task is unfinished; when
\* phase 1 completes every reachable, non-excluded directory that is not
\* beneath a failed one (and was not cut off by an error of another kind)
\* is in the Ledger exactly once; and phase 1 still terminates: after a
\* listing error it is never stuck with every worker blocked on the full
\* queue while main waits in dir_q.join().
C11_AbsorbedAndTerminates ==
    /\ FailedRel \subseteq Range(Ledger)
    /\ pc = "join1" => \A i \in Workers1 : w1[i].pc # "exit"
    /\ (pc = "join1" /\ dir_q = <<>> /\ \A i \in Workers1 : w1[i].pc = "get") =>
          dir_q_unfinished = 0
    /\ Phase1Complete =>
          \A r \in ReachableDirs :
              ((\A d \in FailedRel : ~Beneath(r, d)) /\ ~CutElsewhere(r)) =>
                  Occurrences(r, Ledger) = 1
    /\ failed1 # {} => ~Phase1Deadlocked

\* ------------------------------------------------------------------------
\* C12
\* ------------------------------------------------------------------------

\* Writer f holds no unflushed byte and is closed.
Finalized(f) == f.closed /\ f.buf = <<>>

\* C12: whenever the run has reported success, the Ledger and every shard
\* (or the manifest) are flushed and closed; a sink is closed only after
\* every worker that writes to it has exited, so no worker is ever about to
\* write to a closed sink.
C12_SinksFinalized ==
    /\ pc = "done" =>
          /\ Finalized(dirs_file)
          /\ outs # <<>>
          /\ \A k \in 1..Len(outs) : Finalized(outs[k])
    /\ dirs_file.closed => \A i \in Workers1 : w1[i].pc = "exit"
    /\ \A k \in 1..Len(outs) :
          outs[k].closed => \A i \in Workers2 : w2[i].pc = "exit"
    /\ \A i \in Workers2 : w2[i].pc = "write" => ~outs[w2[i].idx + 1].closed

\* The run has reported success with every shard holding records, after an
\* I/O error was absorbed on the way.
C12_Witness ==
    /\ pc = "done"
    /\ faults = 1
    /\ Len(outs) = MaxShards
    /\ \A k \in 1..Len(outs) : outs[k].disk # <<>> /\ Finalized(outs[k])

\* ------------------------------------------------------------------------
\* C13
\* ------------------------------------------------------------------------

\* The dir_workers that have taken an item and not yet marked it done.
Busy1 == {i \in Workers1 : w1[i].pc \in {"stopping", "scan", "iter", "put"}}

\* C13: the unfinished-task count of dir_q is the number of items on the
\* queue plus the number of workers holding an item (listing it, or about
\* to put one of its children), so it is zero only when the queue is empty
\* and no worker is mid-scan; and dir_q.join() returns only in such a state,
\* with every directory of the Ledger listed or abandoned.
C13_JoinMeansIdle ==
    /\ dir_q_unfinished = Len(dir_q) + Cardinality(Busy1)
    /\ (pc = "stop1" /\ sent = 0) =>
          /\ dir_q = <<>>
          /\ \A i \in Workers1 : w1[i].pc = "get"
          /\ Range(Ledger) = SurvivingDirs

\* dir_q.join() has just returned after two workers recorded at least four
\* directories.
C13_Witness ==
    /\ pc = "stop1"
    /\ sent = 0
    /\ args.workers1 = 2
    /\ Len(Ledger) >= 4
    /\ dir_q = <<>>

\* ------------------------------------------------------------------------
\* C14
\* ------------------------------------------------------------------------

\* Symlinks are not followed and the queue is unbounded or has room for
\* every directory.
Roomy ==
    /\ ~args.follow_symlinks
    /\ (args.maxq <= 0 \/ args.maxq >= Cardinality(ReachableDirs))

\* The threads of phase 1 have been joined: one sentinel was put per
\* thread, every thread took one and exited, and nothing is left on dir_q.
Phase1ShutDown ==
    /\ pc = "close1"
    /\ sent = NumThreads(args.workers1)
    /\ \A i \in Workers1 : w1[i].pc = "exit"
    /\ dir_q = <<>>
    /\ dir_q_unfinished = 0

\* C14: started with symlinks not followed and a queue that is unbounded or
\* at least as large as the number of directories, phase 1 terminates
\* under fair scheduling: the join returns, one sentinel per worker is put,
\* each worker takes one and exits, and all workers are joined.
C14_Phase1Terminates == (pc = "seed" /\ Roomy) ~> Phase1ShutDown

\* Phase 1 has shut down two workers through a queue of capacity one.
C14_Witness ==
    /\ Roomy
    /\ Phase1ShutDown
    /\ args.workers1 = 2
    /\ args.maxq = 1

\* ------------------------------------------------------------------------
\* C15
\* ------------------------------------------------------------------------

\* C15: with a capacity C >= 1 neither queue ever holds more than C items,
\* sentinels included; a producer that finds the queue full keeps its item
\* until it can be put: a dir_worker waiting in put still holds the child
\* it recorded, and the stream reader has not moved past a record it has
\* not put.
C15_QueuesBounded ==
    args.maxq >= 1 =>
        /\ Len(dir_q) <= args.maxq
        /\ Len(dir_in_q) <= args.maxq
        /\ \A i \in Workers1 :
              w1[i].pc = "put" =>
                  /\ relpath(Root, w1[i].child) \in Range(Ledger)
                  /\ w1[i].child \notin Range(dir_q)
        /\ read_pos = Len(pushed)
        /\ pc = "read" => pushed = SubSeq(dirs_file.disk, 1, read_pos)

\* The phase-2 queue is full while the reader has more records to put.
C15_Witness ==
    /\ args.maxq >= 1
    /\ pc = "read"
    /\ Len(dir_in_q) = args.maxq
    /\ read_pos < Len(dirs_file.disk)
    /\ \A i \in Workers2 : w2[i].pc # "get"

\* ------------------------------------------------------------------------
\* C16
\* ------------------------------------------------------------------------

\* The directory a relative path lies directly in.
ParentRel(r) == IF Len(r) = 1 THEN <<".">> ELSE Front(r)

\* The directories on dir_q, being listed by a worker, or about to be put.
InFlight1 ==
    {dir_q[k] : k \in {n \in 1..Len(dir_q) : dir_q[n] # Stop}}
    \cup {w1[i].d : i \in {n \in Workers1 : w1[n].pc \in {"scan", "iter", "put"}}}
    \cup {w1[i].child : i \in {n \in Workers1 : w1[n].pc = "put"}}

\* C16: every directory on the phase-1 queue, being listed, or about to be
\* put is already in the Ledger; "." is written before Root is put and
\* before any worker starts; and every Ledger entry other than "." comes
\* after the entry of its parent, so an entry always precedes the entries
\* of its descendants.
C16_RecordedBeforeScanned ==
    /\ \A d \in InFlight1 : relpath(Root, d) \in Range(Ledger)
    /\ pc \in {"seed", "seed_put"} =>
          /\ dir_q = <<>>
          /\ \A i \in Workers1 : w1[i].pc = "new"
    /\ pc \notin {"seed", "crashed"} => (Ledger # <<>> /\ Ledger[1] = <<".">>)
    /\ \A j \in 1..Len(Ledger) :
          Ledger[j] # <<".">> =>
              \E i \in 1..(j - 1) : Ledger[i] = ParentRel(Ledger[j])
    /\ \A i, j \in 1..Len(Ledger) : Beneath(Ledger[j], Ledger[i]) => i < j

\* Two workers are at work and the Ledger holds a directory of depth two
\* behind its parent.
C16_Witness ==
    /\ args.workers1 = 2
    /\ pc = "join1"
    /\ InFlight1 # {}
    /\ \E j \in 1..Len(Ledger) : Len(Ledger[j]) = 2

\* ------------------------------------------------------------------------
\* C17
\* ------------------------------------------------------------------------

\* C17: for every ledger of non-empty NUL-terminated records and every
\* chunk size, the paths the reader puts on the phase-2 queue are at every
\* moment the first records of the ledger, in order and each once, and when
\* the reader reaches the end of the file they are all of its records.
C17_ReaderRoundTrip ==
    /\ Len(pushed) <= Len(dirs_file.disk)
    /\ pushed = SubSeq(dirs_file.disk, 1, Len(pushed))
    /\ dir_in_q = pushed
    /\ pc = "join2" => pushed = dirs_file.disk

\* The reader has finished a ledger of three records, one of which is
\* longer than the chunk size.
C17_Witness ==
    /\ pc = "join2"
    /\ rd.chunk \in 2..3
    /\ Len(dirs_file.disk) = 3
    /\ <<"b", "c">> \in Range(dirs_file.disk)
    /\ pushed = dirs_file.disk

\* ------------------------------------------------------------------------
\* C18
\* ------------------------------------------------------------------------

\* C18 as stated: in roundrobin mode with more than one shard, the k-th
\* file to take the counter (k from 0) obtains the value k, so no two files
\* obtain the same value, and is routed to shard k mod N; every record of a
\* shard was routed there; and at completion the record counts of any two
\* shards differ by at most 1.
C18_RoundRobinBalanced ==
    (args.mode = "roundrobin" /\ Len(outs) > 1) =>
        /\ rr_counter = Len(tickets)
        /\ \A k \in 1..Len(tickets) :
              /\ tickets[k].i = k - 1
              /\ tickets[k].idx = (k - 1) % Len(outs)
        /\ \A j \in 1..Len(outs) : \A r \in Range(ShardRecords(j)) :
              \E k \in 1..Len(tickets) :
                  tickets[k].file = r /\ tickets[k].idx = j - 1
        /\ pc = "done" =>
              \A j, k \in 1..Len(outs) :
                  Len(outs[j].disk) - Len(outs[k].disk) <= 1

\* ------------------------------------------------------------------------
\* C19
\* ------------------------------------------------------------------------

\* The threads of phase 2: the file_workers and main (0).
Threads2 == Workers2 \cup {0}

\* The locks file_worker i holds, and the lock it is waiting for.
HeldBy(i) == {h[1] : h \in {x \in locks.held : x[2] = i}}

WaitsFor(i) ==
    IF w2[i].pc = "rr_wait" THEN {rr_lock}
    ELSE IF w2[i].pc = "out_wait" THEN {out_locks(w2[i].idx + 1)}
    ELSE IF w2[i].pc = "files_wait" THEN {files_lock}
    ELSE IF w2[i].pc = "flush_wait" THEN {out_locks(locks.i)}
    ELSE {}

\* The locks file_worker i holds at each place of its code.
HoldsAt(i) ==
    IF w2[i].pc = "rr_held" THEN {rr_lock}
    ELSE IF w2[i].pc = "out_held" THEN {out_locks(w2[i].idx + 1)}
    ELSE IF w2[i].pc \in {"files_held", "flush_wait"} THEN {files_lock}
    ELSE IF w2[i].pc = "flush_held" THEN {files_lock, out_locks(locks.i)}
    ELSE {}

\* A lock has one holder; a worker holds an output's lock alone while it
\* writes, nothing while it waits for files_lock, and an output's lock
\* together with files_lock only in the flush loop.
LockDiscipline ==
    /\ \A h1, h2 \in locks.held : h1[1] = h2[1] => h1 = h2
    /\ \A i \in Workers2 : HeldBy(i) = HoldsAt(i)
    /\ \A h \in locks.held : h[2] \in Workers2

\* Thread t cannot take a step, and the threads one of which has to act
\* before it can: the holder of the lock awaited; main for a worker in get()
\* on the empty queue; the workers for main in put() on the full queue, in
\* dir_in_q.join() and in t.join().
Blocked2(t) ==
    IF t = 0
    THEN \/ pc = "read" /\ read_pos < Len(dirs_file.disk)
                        /\ QFull(dir_in_q, args.maxq)
         \/ pc = "join2" /\ dir_in_q_unfinished # 0
         \/ pc = "stop2" /\ sent < NumThreads(args.workers2)
                         /\ QFull(dir_in_q, args.maxq)
         \/ pc = "tjoin2" /\ \E i \in Workers2 : w2[i].pc # "exit"
    ELSE \/ w2[t].pc = "get" /\ dir_in_q = <<>>
         \/ \E l \in WaitsFor(t) : ~Free(l)

Unblockers2(t) ==
    IF t = 0 THEN Workers2
    ELSE IF w2[t].pc = "get" THEN {0}
    ELSE {j \in Workers2 : WaitsFor(t) \cap HeldBy(j) # {}}

\* A set of threads of phase 2 each of which waits for a lock, a queue slot
\* or an item that only another thread of the set can provide.
WaitCycle ==
    /\ pc \in {"read", "join2", "stop2", "tjoin2"}
    /\ \E S \in SUBSET Threads2 :
          /\ S # {}
          /\ \A t \in S : Blocked2(t) /\ Unblockers2(t) \subseteq S

\* C19: phase 2 is deadlock-free and terminates for every queue capacity and
\* every number of file_workers: the locks are taken in the stated order (an
\* output's lock is released before files_lock is taken; the flush loop takes
\* the outputs' locks only under files_lock), no reachable state has a set of
\* threads each waiting for a lock, a queue slot or an item held back by
\* another of the set, and once phase 2 has begun the run reaches its end.
C19_Phase2DeadlockFree ==
    /\ []LockDiscipline
    /\ []~WaitCycle
    /\ (pc = "open2") ~> (pc = "done")

\* C19: the capacity is at least 1 and one file_worker, in the flush loop
\* under files_lock, waits for the lock of an output that another worker
\* holds to write, while main waits in put() for a slot of the full queue.
C19_Witness ==
    /\ args.maxq >= 1
    /\ Blocked2(0)
    /\ pc = "read"
    /\ \E i, j \in Workers2 :
          /\ i # j
          /\ w2[i].pc = "flush_wait"
          /\ w2[j].pc = "out_held"
          /\ WaitsFor(i) \subseteq HeldBy(j)

\* ------------------------------------------------------------------------
\* C20
\* ------------------------------------------------------------------------

\* The stream reader has reached the end of the ledger.
LedgerConsumed == pc \in {"join2", "stop2", "tjoin2", "close2", "done"}

\* C20 as stated: whatever the ledger file held when the run began, once
\* the reader has consumed the ledger the paths pushed onto the phase-2
\* queue are the directories discovered in this run, each exactly once, and
\* no other path.
C20_PushedExactlyThisRun ==
    LedgerConsumed => NoDup(pushed) /\ Range(pushed) = ReachableDirs

========================================================================
